---- MODULE Spec2Model ----
(***************************************************************************)
(* Model of the Tracer facade of src/src/tracer.js.                        *)
(*                                                                         *)
(* A state is one Tracer (its _imp reference and the build's               *)
(* API_CONFORMANCE_CHECKS flag), the objects the caller handed to the last *)
(* call (heap), a record of that call (last) and, for flush, how often     *)
(* each callback has been handed to the implementation and invoked.        *)
(* JavaScript values are records [t, s]: t is the kind of the value, s its *)
(* payload (the text of a string, the address of an object, the name of a  *)
(* function).                                                              *)
(***************************************************************************)
EXTENDS Integers, Sequences, FiniteSets, TLC

VARIABLES _imp, API_CONFORMANCE_CHECKS, heap, last, doneCalls, pending

vars == <<_imp, API_CONFORMANCE_CHECKS, heap, last, doneCalls, pending>>

\* Cap on the number of callbacks flush takes in one behaviour.
MaxFlush == 2

-----------------------------------------------------------------------------
\* JavaScript values

Undefined == [t |-> "undefined", s |-> ""]
Null == [t |-> "null", s |-> ""]
Str(x) == [t |-> "string", s |-> x]
Num == [t |-> "number", s |-> "5"]
Fn(f) == [t |-> "function", s |-> f]
Ref(a) == [t |-> "object", s |-> a]

\* typeof v
TypeOf(v) == IF v.t = "null" THEN "object" ELSE v.t

\* the truthiness of v, as `if (v)`, `!v` and `a && b` use it
ToBoolean(v) ==
    CASE v.t = "undefined" -> FALSE
      [] v.t = "null" -> FALSE
      [] v.t = "string" -> v.s # ""
      [] OTHER -> TRUE

\* arguments[i], undefined past arguments.length
Arg(args, i) == IF i <= Len(args) THEN args[i] ELSE Undefined

-----------------------------------------------------------------------------
\* Objects.  The heap holds the caller's object of the call ("arg"), the
\* SpanContext the caller holds ("ctx") and the object the facade may
\* allocate ("fresh").  Any other address is an object the facade never
\* looks into (a Reference, a tags object, a byte buffer, a backend handle).

Addrs == {"arg", "ctx", "fresh"}
Props == {"operationName", "reference", "references", "tags", "buffer", "traceData", "_imp"}

NoProps == [p \in Props |-> Undefined]
FreeObj == [cls |-> "free", p |-> NoProps]
PlainObj(props) == [cls |-> "Object", p |-> props]

\* v.p : reading a property of null or undefined is a TypeError
CanRead(v) == v.t \notin {"undefined", "null"}
Get(h, v, p) ==
    IF v.t = "object" /\ v.s \in Addrs /\ h[v.s].cls # "free" THEN h[v.s].p[p] ELSE Undefined

\* v.p = x : in strict mode a TypeError unless v is an object
CanWrite(v) == v.t \in {"object", "function"}
Put(h, v, p, x) ==
    IF v.t = "object" /\ v.s \in Addrs
    THEN [h EXCEPT ![v.s] = [cls |-> IF @.cls = "free" THEN "Object" ELSE @.cls,
                             p |-> [@.p EXCEPT ![p] = x]]]
    ELSE h

\* v instanceof SpanContext
InstanceOfSpanContext(h, v) ==
    v.t = "object" /\ v.s \in Addrs /\ h[v.s].cls = "SpanContext"

-----------------------------------------------------------------------------
\* Results of a call: what it threw ("" when it returned), what it returned,
\* the heap it left, the calls it made on the implementation and the
\* callbacks it invoked, in order.

NoError == ""
TypeError == "TypeError"

RetNone == [kind |-> "none", imp |-> Undefined]
RetUndefined == [kind |-> "undefined", imp |-> Undefined]
NewSpan(spanImp) == [kind |-> "Span", imp |-> spanImp]
NewSpanContext(ctxImp) == [kind |-> "SpanContext", imp |-> ctxImp]

Thrown(err, h, calls) ==
    [threw |-> err, ret |-> RetNone, heap |-> h, impCalls |-> calls, cbCalls |-> <<>>]
Returned(r, h, calls, cbs) ==
    [threw |-> NoError, ret |-> r, heap |-> h, impCalls |-> calls, cbCalls |-> cbs]

ImpCall(m, a) == [method |-> m, args |-> a]

-----------------------------------------------------------------------------
\* Tracer.startSpan

ErrStartSpanArgc == "Invalid number of arguments."
ErrStartSpanType == "argument expected to be a string or object"
ErrStartSpanEmpty == "operation name cannot be length zero"
ErrStartSpanObjArgc == "Unexpected number of arguments"
ErrStartSpanNull == "fields should not be null"
ErrStartSpanNoName == "operationName is a required parameter"
ErrStartSpanConflict == "At most one of reference and references may be specified"

StartSpanArgcBad(argc) == argc > 2

\* the conformance checks at the head of startSpan
StartSpanCheck(args, h) ==
    LET nameOrFields == Arg(args, 1) IN
    IF StartSpanArgcBad(Len(args)) THEN ErrStartSpanArgc
    ELSE IF TypeOf(nameOrFields) # "string" /\ TypeOf(nameOrFields) # "object"
    THEN ErrStartSpanType
    ELSE IF TypeOf(nameOrFields) = "string" /\ nameOrFields.s = "" THEN ErrStartSpanEmpty
    ELSE IF TypeOf(nameOrFields) = "object"
    THEN IF Len(args) # 1 THEN ErrStartSpanObjArgc
         ELSE IF nameOrFields = Null THEN ErrStartSpanNull
         ELSE IF ~ToBoolean(Get(h, nameOrFields, "operationName")) THEN ErrStartSpanNoName
         ELSE NoError
    ELSE NoError

\* the normalisation of the arguments into one fields object
StartSpanNormalize(args, h) ==
    LET nameOrFields == Arg(args, 1)
        fields == Arg(args, 2)
    IN  IF Len(args) = 1
        THEN IF TypeOf(nameOrFields) = "string"
             THEN [threw |-> NoError, fields |-> Ref("fresh"),
                   heap |-> Put(h, Ref("fresh"), "operationName", nameOrFields)]
             ELSE [threw |-> NoError, fields |-> nameOrFields, heap |-> h]
        ELSE IF CanWrite(fields)
             THEN [threw |-> NoError, fields |-> fields,
                   heap |-> Put(h, fields, "operationName", nameOrFields)]
             ELSE [threw |-> TypeError, fields |-> fields, heap |-> h]

\* fields.reference && fields.references
BothReferences(h, fields) ==
    ToBoolean(Get(h, fields, "reference")) /\ ToBoolean(Get(h, fields, "references"))

\* the backend's startSpan: an opaque span handle
ImpStartSpan(fields) == Ref("impSpan")

StartSpanDelegate(args, h, checks) ==
    LET n == StartSpanNormalize(args, h) IN
    IF n.threw # NoError THEN Thrown(n.threw, n.heap, <<>>)
    ELSE IF checks /\ ~CanRead(n.fields) THEN Thrown(TypeError, n.heap, <<>>)
    ELSE IF checks /\ BothReferences(n.heap, n.fields)
    THEN Thrown(ErrStartSpanConflict, n.heap, <<>>)
    ELSE Returned(NewSpan(ImpStartSpan(n.fields)), n.heap,
                  <<ImpCall("startSpan", <<n.fields>>)>>, <<>>)

StartSpan(args, h, imp, checks) ==
    LET err == IF checks THEN StartSpanCheck(args, h) ELSE NoError IN
    IF err # NoError THEN Thrown(err, h, <<>>)
    ELSE IF ToBoolean(imp) THEN StartSpanDelegate(args, h, checks)
    ELSE Returned(NewSpan(Null), h, <<>>, <<>>)

-----------------------------------------------------------------------------
\* Tracer.inject

FORMAT_TEXT_MAP == Str("text_map")
FORMAT_BINARY == Str("binary")

ErrInjectArgc == "Invalid number of arguments."
ErrInjectContext == "Expected SpanContext object as first argument"
ErrInjectFormat == "format expected to be a string. Found: "
ErrInjectTextMap == "Unexpected carrier object for TEXT_MAP format"
ErrInjectBinary == "Unexpected carrier object for BINARY format"

\* inject that only rejects too few arguments
InjectArgcBad_TooFewOnly(argc) == argc < 3

InjectArgcBad(argc) == argc # 3

\* the conformance checks at the head of inject
InjectCheck(args, h) ==
    LET spanContext == Arg(args, 1)
        format == Arg(args, 2)
        carrier == Arg(args, 3)
    IN  IF InjectArgcBad(Len(args)) THEN ErrInjectArgc
        ELSE IF ~InstanceOfSpanContext(h, spanContext) THEN ErrInjectContext
        ELSE IF TypeOf(format) # "string" THEN ErrInjectFormat
        ELSE IF format = FORMAT_TEXT_MAP /\ TypeOf(carrier) # "object" THEN ErrInjectTextMap
        ELSE IF format = FORMAT_BINARY /\ TypeOf(carrier) # "object" THEN ErrInjectBinary
        ELSE NoError

\* the backend's inject: it may write the context into the carrier, the
\* buffer field for FORMAT_BINARY and the trace keys for any other format
ImpInject(h, format, carrier, writes) ==
    IF ~writes THEN h
    ELSE IF format = FORMAT_BINARY THEN Put(h, carrier, "buffer", Ref("bytes"))
    ELSE Put(h, carrier, "traceData", Str("trace"))

\* inject that serialises into the carrier whether or not an implementation is installed
InjectDelegates_Always(imp) == TRUE

\* whether inject hands the call to the implementation
InjectDelegates(imp) == ToBoolean(imp)

Inject(args, h, imp, checks, writes) ==
    LET spanContext == Arg(args, 1)
        format == Arg(args, 2)
        carrier == Arg(args, 3)
        err == IF checks THEN InjectCheck(args, h) ELSE NoError
    IN  IF err # NoError THEN Thrown(err, h, <<>>)
        ELSE IF InjectDelegates(imp)
        THEN IF ~CanRead(spanContext) THEN Thrown(TypeError, h, <<>>)
             ELSE Returned(RetUndefined, ImpInject(h, format, carrier, writes),
                           <<ImpCall("inject", <<Get(h, spanContext, "_imp"), format, carrier>>)>>,
                           <<>>)
        ELSE Returned(RetUndefined, h, <<>>, <<>>)

-----------------------------------------------------------------------------
\* Tracer.extract

ErrExtractArgc == "Invalid number of arguments."
ErrExtractFormat == "format is expected to be a string of non-zero length"
ErrExtractTextMap == "Unexpected carrier object for FORMAT_TEXT_MAP"
ErrExtractBinary == "Unexpected carrier object for FORMAT_BINARY"

ExtractArgcBad(argc) == argc # 2

\* extract that requires a buffer
ExtractBufferBad_Required(buffer) == TypeOf(buffer) # "object"

\* carrier.buffer !== undefined && typeof carrier.buffer !== 'object'
ExtractBufferBad(buffer) == buffer # Undefined /\ TypeOf(buffer) # "object"

\* the conformance checks at the head of extract
ExtractCheck(args, h) ==
    LET format == Arg(args, 1)
        carrier == Arg(args, 2)
    IN  IF ExtractArgcBad(Len(args)) THEN ErrExtractArgc
        ELSE IF TypeOf(format) # "string" \/ format.s = "" THEN ErrExtractFormat
        ELSE IF format = FORMAT_TEXT_MAP /\ ~(TypeOf(carrier) = "object") THEN ErrExtractTextMap
        ELSE IF format = FORMAT_BINARY
        THEN IF ~CanRead(carrier) THEN TypeError
             ELSE IF ExtractBufferBad(Get(h, carrier, "buffer")) THEN ErrExtractBinary
             ELSE NoError
        ELSE NoError

\* the backend's extract: a context handle when the carrier holds trace
\* data, null when it holds none
ImpExtract(h, format, carrier) ==
    IF ToBoolean(Get(h, carrier, "traceData")) \/ ToBoolean(Get(h, carrier, "buffer"))
    THEN Ref("impCtx")
    ELSE Null

Extract(args, h, imp, checks) ==
    LET format == Arg(args, 1)
        carrier == Arg(args, 2)
        err == IF checks THEN ExtractCheck(args, h) ELSE NoError
    IN  IF err # NoError THEN Thrown(err, h, <<>>)
        ELSE IF ToBoolean(imp)
        THEN Returned(NewSpanContext(ImpExtract(h, format, carrier)), h,
                      <<ImpCall("extract", <<format, carrier>>)>>, <<>>)
        ELSE Returned(NewSpanContext(Null), h, <<>>, <<>>)

-----------------------------------------------------------------------------
\* Tracer.flush

ErrFlushArgc == "Invalid number of arguments"
ErrFlushCallback == "callback expected to be a function"

FlushArgcBad(argc) == argc > 1

\* the conformance checks at the head of flush
FlushCheck(args) ==
    LET done == Arg(args, 1) IN
    IF FlushArgcBad(Len(args)) THEN ErrFlushArgc
    ELSE IF done # Undefined /\ TypeOf(done) # "function" THEN ErrFlushCallback
    ELSE NoError

CbCall(f, err) == [fn |-> f, err |-> err]

\* flush that reports completion twice
FlushNoImp_Twice(done) == <<CbCall(done.s, Null), CbCall(done.s, Null)>>

\* done(null) on a Tracer without implementation
FlushNoImp(done) == <<CbCall(done.s, Null)>>

Flush(args, h, imp, checks) ==
    LET done == Arg(args, 1)
        err == IF checks THEN FlushCheck(args) ELSE NoError
    IN  IF err # NoError THEN Thrown(err, h, <<>>)
        ELSE IF ~ToBoolean(imp)
        THEN IF TypeOf(done) # "function" THEN Thrown(TypeError, h, <<>>)
             ELSE Returned(RetUndefined, h, <<>>, FlushNoImp(done))
        ELSE Returned(RetUndefined, h, <<ImpCall("flush", <<done>>)>>, <<>>)

-----------------------------------------------------------------------------
\* The calls a caller makes

Funcs == {"f1", "f2"}

\* the fields objects a caller builds for startSpan
FieldsObjects ==
    { PlainObj([NoProps EXCEPT !["operationName"] = n, !["reference"] = r,
                               !["references"] = rs,
                               !["tags"] = IF n = Undefined THEN Undefined ELSE Ref("tags")]) :
        n \in {Undefined, Str(""), Str("fieldsOp")}, r \in {Undefined, Ref("ref")},
        rs \in {Undefined, Ref("refs")} }

\* the carriers a caller builds for inject and extract
CarrierObjects ==
    { PlainObj([NoProps EXCEPT !["traceData"] = d, !["buffer"] = b]) :
        d \in {Undefined, Str("trace")}, b \in {Undefined, Ref("bytes"), Num} } \
    { PlainObj([NoProps EXCEPT !["traceData"] = Str("trace"), !["buffer"] = b]) :
        b \in {Ref("bytes"), Num} }

StartSpanArgs ==
    {<<>>}
    \cup { <<a>> : a \in {Undefined, Null, Num, Str(""), Str("op"), Ref("arg")} }
    \cup { <<Str("op"), b>> : b \in {Undefined, Null, Num, Ref("arg")} }
    \cup { <<Str(""), Ref("arg")>>, <<Ref("arg"), Num>>, <<Null, Num>>,
           <<Str("op"), Num, Num>>, <<Str("op"), Ref("arg"), Num>> }

InjectArgs ==
    { <<>>, <<Ref("ctx")>>, <<Ref("ctx"), FORMAT_TEXT_MAP>>,
      <<Ref("ctx"), FORMAT_TEXT_MAP, Ref("arg"), Num>> }
    \cup { <<Ref("arg"), FORMAT_TEXT_MAP, Ref("arg")>> }
    \cup { <<c, f, k>> : c \in {Ref("ctx"), Undefined},
                         f \in {Num, Str(""), Str("custom"), FORMAT_TEXT_MAP, FORMAT_BINARY},
                         k \in {Ref("arg"), Null, Num} }

ExtractArgs ==
    { <<>>, <<FORMAT_TEXT_MAP>>, <<FORMAT_BINARY, Ref("arg"), Num>> }
    \cup { <<f, k>> : f \in {Num, Str(""), Str("custom"), FORMAT_TEXT_MAP, FORMAT_BINARY},
                      k \in {Ref("arg"), Null, Num} }

FlushArgs ==
    { <<>>, <<Undefined>>, <<Null>>, <<Num>> }
    \cup { <<Fn(f)>> : f \in Funcs }
    \cup { <<Fn(f), Num>> : f \in Funcs }

UsesArg(args) == \E i \in 1..Len(args) : args[i] = Ref("arg")

\* the SpanContext the caller holds: it wraps a backend context when the
\* Tracer it came from has an implementation
CtxObj(imp) ==
    [cls |-> "SpanContext",
     p |-> [NoProps EXCEPT !["_imp"] = IF ToBoolean(imp) THEN Ref("impCtx") ELSE Null]]

CallHeap(imp, o) ==
    [a \in Addrs |-> CASE a = "arg" -> o [] a = "ctx" -> CtxObj(imp) [] OTHER -> FreeObj]

Inputs(argSet, objects) ==
    { <<args, o>> \in argSet \X (objects \cup {FreeObj}) : UsesArg(args) <=> o # FreeObj }

Call(op, args, pre, r) ==
    [op |-> op, args |-> args, pre |-> pre, threw |-> r.threw, ret |-> r.ret,
     impCalls |-> r.impCalls, cbCalls |-> r.cbCalls]

-----------------------------------------------------------------------------
\* The state machine

\* constructor(imp): this._imp = imp || null
Constructor(imp) == IF ToBoolean(imp) THEN imp ELSE Null

Init ==
    /\ \E imp \in {Undefined, Ref("imp")} : _imp = Constructor(imp)
    /\ API_CONFORMANCE_CHECKS \in BOOLEAN
    /\ heap = CallHeap(_imp, FreeObj)
    /\ last = Call("new", <<>>, heap, Returned(RetUndefined, heap, <<>>, <<>>))
    /\ doneCalls = [f \in Funcs |-> 0]
    /\ pending = [f \in Funcs |-> 0]

DoStartSpan ==
    \E in \in Inputs(StartSpanArgs, FieldsObjects) :
        LET pre == CallHeap(_imp, in[2])
            r == StartSpan(in[1], pre, _imp, API_CONFORMANCE_CHECKS)
        IN  /\ heap' = r.heap
            /\ last' = Call("startSpan", in[1], pre, r)
            /\ UNCHANGED <<_imp, API_CONFORMANCE_CHECKS, doneCalls, pending>>

DoInject ==
    \E in \in Inputs(InjectArgs, CarrierObjects), writes \in BOOLEAN :
        LET pre == CallHeap(_imp, in[2])
            r == Inject(in[1], pre, _imp, API_CONFORMANCE_CHECKS, writes)
        IN  /\ heap' = r.heap
            /\ last' = Call("inject", in[1], pre, r)
            /\ UNCHANGED <<_imp, API_CONFORMANCE_CHECKS, doneCalls, pending>>

DoExtract ==
    \E in \in Inputs(ExtractArgs, CarrierObjects) :
        LET pre == CallHeap(_imp, in[2])
            r == Extract(in[1], pre, _imp, API_CONFORMANCE_CHECKS)
        IN  /\ heap' = r.heap
            /\ last' = Call("extract", in[1], pre, r)
            /\ UNCHANGED <<_imp, API_CONFORMANCE_CHECKS, doneCalls, pending>>

\* the callbacks of cbs that are f, counted
Invocations(cbs, f) == Cardinality({ i \in 1..Len(cbs) : cbs[i].fn = f })

\* the callbacks the calls of a flush handed to the implementation, counted
Handed(calls, f) ==
    Cardinality({ i \in 1..Len(calls) : calls[i].method = "flush" /\ calls[i].args = <<Fn(f)>> })

\* the callbacks flush has taken so far
Taken == LET n(f) == doneCalls[f] + pending[f] IN n("f1") + n("f2")

DoFlush ==
    /\ Taken < MaxFlush
    /\ \E args \in FlushArgs :
        LET pre == CallHeap(_imp, FreeObj)
            r == Flush(args, pre, _imp, API_CONFORMANCE_CHECKS)
        IN  /\ heap' = r.heap
            /\ last' = Call("flush", args, pre, r)
            /\ doneCalls' = [f \in Funcs |-> doneCalls[f] + Invocations(r.cbCalls, f)]
            /\ pending' = [f \in Funcs |-> pending[f] + Handed(r.impCalls, f)]
            /\ UNCHANGED <<_imp, API_CONFORMANCE_CHECKS>>

\* the backend completes a flush and reports it through the callback it holds
ImpFlushDone ==
    \E f \in Funcs, err \in {Null, Ref("error")} :
        /\ pending[f] > 0
        /\ pending' = [pending EXCEPT ![f] = @ - 1]
        /\ doneCalls' = [doneCalls EXCEPT ![f] = @ + 1]
        /\ heap' = CallHeap(_imp, FreeObj)
        /\ last' = Call("impFlushDone", <<Fn(f)>>, heap',
                        Returned(RetUndefined, heap', <<>>, <<CbCall(f, err)>>))
        /\ UNCHANGED <<_imp, API_CONFORMANCE_CHECKS>>

Next == DoStartSpan \/ DoInject \/ DoExtract \/ DoFlush \/ ImpFlushDone

Spec == Init /\ [][Next]_vars

-----------------------------------------------------------------------------
\* Properties

StartSpanErrors ==
    {ErrStartSpanArgc, ErrStartSpanType, ErrStartSpanEmpty, ErrStartSpanObjArgc,
     ErrStartSpanNull, ErrStartSpanNoName, ErrStartSpanConflict}
InjectErrors == {ErrInjectArgc, ErrInjectContext, ErrInjectFormat, ErrInjectTextMap, ErrInjectBinary}
ExtractErrors == {ErrExtractArgc, ErrExtractFormat, ErrExtractTextMap, ErrExtractBinary}
FlushErrors == {ErrFlushArgc, ErrFlushCallback}

IsObject(v) == v.t = "object"
IsName(v) == v.t = "string" /\ v.s # ""

\* the three calling shapes of startSpan
ShapeName(args) == Len(args) = 1 /\ IsName(args[1])
ShapeNameFields(args) == Len(args) = 2 /\ IsName(args[1]) /\ IsObject(args[2])
ShapeFields(args, h) ==
    Len(args) = 1 /\ IsObject(args[1]) /\ ToBoolean(Get(h, args[1], "operationName"))
ValidShape(args, h) == ShapeName(args) \/ ShapeNameFields(args) \/ ShapeFields(args, h)

\* the fields object the caller passed, and what it supplies
CallerFields(args) == IF Len(args) = 2 THEN args[2] ELSE args[1]
Supplies(args, h, p) == IsObject(CallerFields(args)) /\ Get(h, CallerFields(args), p) # Undefined
CallerName(args, h) ==
    IF args[1].t = "string" THEN args[1] ELSE Get(h, args[1], "operationName")

\* C1: on a Tracer without implementation, flush() without a callback
\* returns normally and invokes nothing.
C1_FlushWithoutCallbackReturns ==
    (_imp = Null /\ last.op = "flush" /\ last.args = <<>>)
        => (last.threw = NoError /\ last.cbCalls = <<>>)

\* C2: on a Tracer without implementation, every flush(done) with a function
\* done returns after invoking done exactly once, with null, and no later step
\* that is not a flush passing done invokes it again.
C2_FlushInvokesDoneOnce ==
    [][_imp = Null =>
        \A f \in Funcs :
            IF last'.op = "flush" /\ last'.args = <<Fn(f)>>
            THEN /\ last'.threw = NoError
                 /\ last'.cbCalls = <<CbCall(f, Null)>>
                 /\ doneCalls'[f] = doneCalls[f] + 1
            ELSE \/ last'.op = "flush" /\ Arg(last'.args, 1) = Fn(f)
                 \/ doneCalls'[f] = doneCalls[f]]_vars

C2_Witness ==
    /\ _imp = Null
    /\ last.op = "flush" /\ last.args = <<Fn("f1")>>
    /\ last.cbCalls = <<CbCall("f1", Null)>>
    /\ doneCalls["f1"] = 2

\* C3: with the checks enabled, on any Tracer and in any valid shape, fields
\* supplying both reference and references fail with the conflict error and
\* no Span; fields supplying neither yield a Span.
C3_ConflictingReferencesRejected ==
    (API_CONFORMANCE_CHECKS /\ last.op = "startSpan" /\ ValidShape(last.args, last.pre))
        => /\ (Supplies(last.args, last.pre, "reference")
                /\ Supplies(last.args, last.pre, "references"))
               => (last.threw = ErrStartSpanConflict /\ last.ret = RetNone)
           /\ (~Supplies(last.args, last.pre, "reference")
                /\ ~Supplies(last.args, last.pre, "references"))
               => last.ret.kind = "Span"

\* C4: with the checks enabled, startSpan returns a Span for the three valid
\* shapes (whose fields are not in conflict) and fails for every other shape.
C4_SpanIffValidShape ==
    (API_CONFORMANCE_CHECKS /\ last.op = "startSpan")
        => /\ ~ValidShape(last.args, last.pre)
               => (last.threw # NoError /\ last.ret = RetNone)
           /\ (ValidShape(last.args, last.pre)
                /\ ~(Supplies(last.args, last.pre, "reference")
                      /\ Supplies(last.args, last.pre, "references")))
               => last.ret.kind = "Span"

\* C5: with the checks enabled, a wrong number of arguments is rejected with
\* an error of the facade at every entry point, before any call to the
\* implementation.
C5_ArgumentCountRejected ==
    API_CONFORMANCE_CHECKS =>
        LET argc == Len(last.args)
            rejected(errors) ==
                last.threw \in errors /\ last.impCalls = <<>> /\ last.ret = RetNone
        IN  /\ (last.op = "startSpan" /\ argc \notin {1, 2}) => rejected(StartSpanErrors)
            /\ (last.op = "inject" /\ argc # 3) => rejected(InjectErrors)
            /\ (last.op = "extract" /\ argc # 2) => rejected(ExtractErrors)
            /\ (last.op = "flush" /\ argc > 1) => rejected(FlushErrors)

C5_Witness ==
    /\ API_CONFORMANCE_CHECKS /\ _imp # Null
    /\ last.op = "inject" /\ Len(last.args) = 4
    /\ last.threw = ErrInjectArgc /\ last.impCalls = <<>>

\* C6: with the checks enabled, inject with three arguments and a SpanContext
\* fails validation, without calling the implementation, for every format
\* that is not a non-empty string.
C6_InjectFormatNonEmpty ==
    (/\ API_CONFORMANCE_CHECKS /\ last.op = "inject" /\ Len(last.args) = 3
     /\ InstanceOfSpanContext(last.pre, last.args[1])
     /\ ~IsName(last.args[2]))
        => (last.threw \in InjectErrors /\ last.impCalls = <<>>)

\* C7: extract with two arguments and a non-empty string format does not throw
\* for FORMAT_TEXT_MAP with an object carrier, nor for FORMAT_BINARY with a
\* carrier without buffer; without implementation it returns a SpanContext
\* with no implementation reference, whatever the carrier holds.
C7_ExtractDegrades ==
    (/\ last.op = "extract" /\ Len(last.args) = 2
     /\ \/ last.args[1] = FORMAT_TEXT_MAP /\ TypeOf(last.args[2]) = "object"
        \/ /\ last.args[1] = FORMAT_BINARY /\ CanRead(last.args[2])
           /\ Get(last.pre, last.args[2], "buffer") = Undefined)
        => /\ last.threw = NoError
           /\ _imp = Null => (last.ret = NewSpanContext(Null) /\ last.impCalls = <<>>)

C7_Witness ==
    /\ _imp = Null /\ API_CONFORMANCE_CHECKS
    /\ last.op = "extract" /\ last.args = <<FORMAT_BINARY, Ref("arg")>>
    /\ last.pre["arg"].p["traceData"] = Str("trace")
    /\ last.pre["arg"].p["buffer"] = Undefined
    /\ last.ret = NewSpanContext(Null)

\* C8: on a Tracer without implementation, an inject that passes validation
\* returns nothing and leaves the carrier as it was passed in.
C8_InjectNoOp ==
    (_imp = Null /\ last.op = "inject" /\ last.threw = NoError)
        => (heap = last.pre /\ last.ret = RetUndefined /\ last.impCalls = <<>>)

C8_Witness ==
    /\ _imp = Null /\ API_CONFORMANCE_CHECKS
    /\ last.op = "inject" /\ last.args = <<Ref("ctx"), FORMAT_TEXT_MAP, Ref("arg")>>
    /\ last.threw = NoError
    /\ last.pre["arg"].p["traceData"] = Str("trace")
    /\ heap["arg"] = last.pre["arg"]

\* what C9 says of a startSpan call that was delegated
DelegatedOnce ==
    /\ Len(last.impCalls) = 1
    /\ last.impCalls[1].method = "startSpan"
    /\ Len(last.impCalls[1].args) = 1
    /\ LET fields == last.impCalls[1].args[1] IN
        /\ Get(heap, fields, "operationName") = CallerName(last.args, last.pre)
        /\ Len(last.args) = 2 => fields = last.args[2]
        /\ (Len(last.args) = 1 /\ IsObject(last.args[1])) => fields = last.args[1]
        /\ IsObject(CallerFields(last.args))
            => Get(heap, fields, "tags") = Get(last.pre, CallerFields(last.args), "tags")
        /\ last.ret = NewSpan(ImpStartSpan(fields))

\* C9: with an implementation installed, every startSpan that passes
\* validation calls the implementation's startSpan exactly once, with one
\* fields object carrying the caller's operation name (the caller's own
\* object when one was passed), and returns a Span wrapping the result.
C9_StartSpanDelegates ==
    (/\ API_CONFORMANCE_CHECKS /\ _imp # Null /\ last.op = "startSpan"
     /\ last.threw \notin StartSpanErrors)
        => DelegatedOnce

\* C10: a startSpan that ends in a validation error of the facade has not
\* called the implementation and has left the caller's fields object as it
\* was passed in.
C10_FailedStartSpanHasNoEffect ==
    (API_CONFORMANCE_CHECKS /\ last.op = "startSpan" /\ last.threw \in StartSpanErrors)
        => (last.impCalls = <<>> /\ heap["arg"] = last.pre["arg"])

====
